---- MODULE Spec2Model ----
(***************************************************************************)
(* MorphoLex: the morphological variable engine of build_morpholex_db.py   *)
(* and the segmentation annotator of utilities/fix_segmentation.py.        *)
(*                                                                         *)
(* A Python string is a sequence of one-character strings, so that         *)
(* substring tests, regular expressions and replacements are computed on   *)
(* the characters.  A quotient a / b is kept as the exact fraction         *)
(* [num |-> a, den |-> b]; a denominator of 0 is Python's                  *)
(* ZeroDivisionError.  The sub-title frequency is counted in hundredths    *)
(* (0.02 is 2).  The columns of a row that no computation reads (word,     *)
(* part of speech) are left out.                                           *)
(***************************************************************************)
EXTENDS Integers, Sequences, FiniteSets, TLC

VARIABLES
    \* build_morpholex_db.py, __main__
    db,           \* the rows of the lexical database, as read and then as
                  \* preprocessed
    hapax_set,    \* get_hapax_set(db)
    morpho_vars,  \* morpheme -> its variables
    counted,      \* morphemes already aggregated
    aggregated,   \* the morphemes in the order their aggregation (lines
                  \* 112-125) was executed, one entry per execution
    res,          \* PRS signature -> records of the words with that signature
    i,            \* index of the next row of the running loop
    pc,           \* "preprocess", "hapax", "compute", "apply", "done", "error"
    \* the morpheme extractor taken alone
    x_segm,       \* a segmentation string built from spans
    x_spans,      \* the spans it was built from
    x_morphemes,  \* get_morphemes(x_segm), or <<>> before the call
    x_prs,        \* get_PRS_signature(x_segm), or <<>> before the call
    x_pc,         \* which of the two calls were made
    \* utilities/fix_segmentation.py
    roots,        \* the resolved root set
    raw,          \* the segmentation the current run started from
    new_segm,     \* the segmentation being rewritten
    stage,        \* the next stage to run
    run           \* 1: the run on the raw string, 2: the run on its output

vars == <<db, hapax_set, morpho_vars, counted, aggregated, res, i, pc,
          x_segm, x_spans, x_morphemes, x_prs, x_pc,
          roots, raw, new_segm, stage, run>>

engine_vars == <<db, hapax_set, morpho_vars, counted, aggregated, res, i, pc>>
extract_vars == <<x_segm, x_spans, x_morphemes, x_prs, x_pc>>
annot_vars == <<roots, raw, new_segm, stage, run>>

(***************************************************************************)
(* Bounds of the model.                                                    *)
(***************************************************************************)
MaxRows == 3      \* rows of the corpus
MaxSpans == 3     \* spans of a segmentation handed to the extractor

(***************************************************************************)
(* Strings.                                                                *)
(***************************************************************************)
Min(S) == CHOOSE x \in S : \A y \in S : x <= y

\* t occurs in s at position p
OccursAt(t, s, p) ==
    /\ p >= 1
    /\ p + Len(t) - 1 <= Len(s)
    /\ \A k \in 1..Len(t) : s[p + k - 1] = t[k]

\* Python's  t in s
Contains(t, s) == \E p \in 1..(Len(s) - Len(t) + 1) : OccursAt(t, s, p)

\* the least position of t in s, or 0
Find(t, s) ==
    LET c == {p \in 1..(Len(s) - Len(t) + 1) : OccursAt(t, s, p)}
    IN  IF c = {} THEN 0 ELSE Min(c)

\* the least index >= p of s holding a character of set, or 0
FirstIn(s, p, set) ==
    LET c == {k \in p..Len(s) : s[k] \in set}
    IN  IF c = {} THEN 0 ELSE Min(c)

\* Python's  s.count(ch)
Count(s, ch) == Cardinality({k \in 1..Len(s) : s[k] = ch})

NULL == <<"N", "U", "L", "L">>

(***************************************************************************)
(* build_morpholex_db.py: the pure functions.                              *)
(***************************************************************************)
HAPAX_SBTL_FREQ_THRESHOLD == 2
HAPAX_HAL_FREQ_THRESHOLD == 1

Openers == {"<", ">", "("}
Closers == {"<", ">", ")"}

\* re.findall(r'[<>(][^><)]+?[<>)]', segm) from position p on: an opener, the
\* shortest non-empty run free of closers, a closer; the scan resumes after
\* the match, or one character further when there is none.
RECURSIVE FindMorphemes(_, _)
FindMorphemes(segm, p) ==
    IF p > Len(segm) THEN <<>>
    ELSE LET q == FirstIn(segm, p + 1, Closers)
         IN  IF segm[p] \in Openers /\ q >= p + 2
             THEN <<SubSeq(segm, p, q)>> \o FindMorphemes(segm, q + 1)
             ELSE FindMorphemes(segm, p + 1)

\* the same scan with a closing class that lacks '<'
RECURSIVE FindMorphemesNoAngle(_, _)
FindMorphemesNoAngle(segm, p) ==
    IF p > Len(segm) THEN <<>>
    ELSE LET q == FirstIn(segm, p + 1, Closers)
         IN  IF segm[p] \in Openers /\ q >= p + 2 /\ segm[q] # "<"
             THEN <<SubSeq(segm, p, q)>> \o FindMorphemesNoAngle(segm, q + 1)
             ELSE FindMorphemesNoAngle(segm, p + 1)

get_morphemes_no_angle(segm) == FindMorphemesNoAngle(segm, 1)

\* get_morphemes raises on the literal 'NULL'
get_morphemes_raises(segm) == segm = NULL

get_morphemes(segm) == FindMorphemes(segm, 1)

get_PRS_signature(segm) ==
    <<Count(segm, "<") \div 2, Count(segm, "("), Count(segm, ">") \div 2>>

RECURSIVE TotalLoop(_, _, _, _)
TotalLoop(morpheme, d, k, total_freq_hal) ==
    IF k > Len(d) THEN total_freq_hal
    ELSE TotalLoop(morpheme, d, k + 1,
                   IF Contains(morpheme, d[k].segm)
                   THEN total_freq_hal + d[k].hal
                   ELSE total_freq_hal)

total_morpheme_freq_first(morpheme, d) ==
    LET c == {k \in 1..Len(d) : Contains(morpheme, d[k].segm)}
    IN  IF c = {} THEN 0 ELSE d[Min(c)].hal

total_morpheme_freq(morpheme, d) == TotalLoop(morpheme, d, 1, 0)

RECURSIVE FamilyLoop(_, _, _, _)
FamilyLoop(morpheme, d, k, family) ==
    IF k > Len(d) THEN family
    ELSE LET segm == d[k].segm
             opened == IF segm \in DOMAIN family THEN family
                       ELSE (segm :> 0) @@ family
         IN  FamilyLoop(morpheme, d, k + 1,
                        IF Contains(morpheme, segm)
                        THEN [opened EXCEPT ![segm] = @ + d[k].hal]
                        ELSE family)

RECURSIVE FamilyLoopOverwrite(_, _, _, _)
FamilyLoopOverwrite(morpheme, d, k, family) ==
    IF k > Len(d) THEN family
    ELSE FamilyLoopOverwrite(morpheme, d, k + 1,
                        IF Contains(morpheme, d[k].segm)
                        THEN (d[k].segm :> d[k].hal) @@ family
                        ELSE family)

get_family_overwrite(morpheme, d) == FamilyLoopOverwrite(morpheme, d, 1, <<>>)

get_family(morpheme, d) == FamilyLoop(morpheme, d, 1, <<>>)

IsHapax(row) ==
    IF row.hal <= HAPAX_HAL_FREQ_THRESHOLD THEN TRUE
    ELSE row.sbtl <= HAPAX_SBTL_FREQ_THRESHOLD

get_hapax_set(d) == SelectSeq(d, IsHapax)

\* a / b
Div(a, b) == [num |-> a, den |-> b]
ZeroDivision(x) == x.den = 0
\* the int 0
Zero == [num |-> 0, den |-> 1]
Times(x, n) == [num |-> x.num * n, den |-> x.den]

MoreFrequent(word_freq, family) ==
    {s \in DOMAIN family : family[s] > word_freq}

\* the variant that divides by the family size
get_percentage_family_more_frequent_by_size(word_freq, family) ==
    IF Cardinality(DOMAIN family) = 1 THEN Zero
    ELSE Times(Div(Cardinality(MoreFrequent(word_freq, family)),
                   Cardinality(DOMAIN family)), 100)

get_percentage_family_more_frequent(word_freq, family) ==
    IF Cardinality(DOMAIN family) = 1 THEN Zero
    ELSE Times(Div(Cardinality(MoreFrequent(word_freq, family)),
                   Cardinality(DOMAIN family) - 1), 100)

get_family_frequency_rank_geq(word_freq, family) ==
    Cardinality({s \in DOMAIN family : family[s] >= word_freq}) + 1

get_family_frequency_rank(word_freq, family) ==
    Cardinality(MoreFrequent(word_freq, family)) + 1

(***************************************************************************)
(* preprocess_db.                                                          *)
(***************************************************************************)
Digits == <<"0", "1", "2", "3", "4", "5", "6", "7", "8", "9">>
IsDigit(c) == \E k \in 1..Len(Digits) : Digits[k] = c
DigitVal(c) == (CHOOSE k \in 1..Len(Digits) : Digits[k] = c) - 1

\* int(s) raises ValueError unless s is a run of digits
int_raises(s) == s = <<>> \/ \E k \in 1..Len(s) : ~IsDigit(s[k])

\* int(s) for a run of digits
RECURSIVE int(_)
int(s) ==
    IF s = <<>> THEN 0
    ELSE Len(Digits) * int(SubSeq(s, 1, Len(s) - 1)) + DigitVal(s[Len(s)])

\* the decimals counted by the model: hundredths
Decimals == 2

RECURSIVE Pow10(_)
Pow10(n) == IF n = 0 THEN 1 ELSE Len(Digits) * Pow10(n - 1)

\* float(s) raises ValueError unless s is digits '.' digits (the decimal
\* notation of the SUBTLWF column, of at most Decimals decimals)
float_raises(s) ==
    LET dot == Find(<<".">>, s)
    IN  \/ dot = 0
        \/ int_raises(SubSeq(s, 1, dot - 1))
        \/ int_raises(SubSeq(s, dot + 1, Len(s)))
        \/ Len(s) - dot > Decimals

\* float(s), in hundredths
float(s) ==
    LET dot == Find(<<".">>, s)
        frac == SubSeq(s, dot + 1, Len(s))
    IN  int(SubSeq(s, 1, dot - 1)) * Pow10(Decimals)
        + int(frac) * Pow10(Decimals - Len(frac))

\* no row is filtered out
KeepEveryRow(x) == TRUE

\* line 276: the rows that have a segmentation
HasSegmentation(x) == x.segm # NULL

valid_db_subset(d) == SelectSeq(d, HasSegmentation)

\* lines 282-290 raise when a frequency of a kept row is not a number
preprocess_db_raises(d) ==
    \E k \in 1..Len(valid_db_subset(d)) :
        LET row == valid_db_subset(d)[k]
        IN  \/ row.sbtl # NULL /\ float_raises(row.sbtl)
            \/ int_raises(row.hal)

\* lines 281-291
preprocess_db(d) ==
    [k \in 1..Len(valid_db_subset(d)) |->
        LET row == valid_db_subset(d)[k]
        IN  [id   |-> row.id,
             segm |-> row.segm,
             hal  |-> int(row.hal),
             sbtl |-> IF row.sbtl # NULL THEN float(row.sbtl) ELSE 0]]

(***************************************************************************)
(* compute_morphological_variables.                                        *)
(***************************************************************************)
\* no test: the quotients are always taken
NoHapaxGuard(hapax_freq) == FALSE

\* the hapax frequency is tested for 0, line 120
HapaxGuard(hapax_freq) == hapax_freq = 0

\* the body of the loop over the morphemes not yet counted, lines 112-125
MorphemeVars(m, d, hapax) ==
    LET freq == total_morpheme_freq(m, d)
        family == get_family(m, d)
        hapax_freq == total_morpheme_freq(m, hapax)
    IN  [hal_freq    |-> freq,
         family      |-> family,
         family_size |-> Cardinality(DOMAIN family),
         length      |-> Len(m) - 2,
         hal_p       |-> IF HapaxGuard(hapax_freq) THEN Zero
                         ELSE Div(hapax_freq, freq),
         hal_pstar   |-> IF HapaxGuard(hapax_freq) THEN Zero
                         ELSE Div(hapax_freq, Len(hapax))]

Raises(v) == ZeroDivision(v.hal_p) \/ ZeroDivision(v.hal_pstar)

\* for m in [x for x in morphemes if x not in counted]: the list is built
\* before the loop runs
RECURSIVE MorphemeLoop(_, _, _, _, _)
MorphemeLoop(todo, k, st, d, hapax) ==
    IF k > Len(todo) \/ st.err THEN st
    ELSE LET m == todo[k]
             v == MorphemeVars(m, d, hapax)
         IN  MorphemeLoop(todo, k + 1,
                 [mv      |-> IF Raises(v) THEN st.mv ELSE (m :> v) @@ st.mv,
                  counted |-> st.counted \cup {m},
                  aggregated |-> Append(st.aggregated, m),
                  err     |-> Raises(v)],
                 d, hapax)

\* the variant that aggregates only the first morpheme of the row
ComputeRowStepFirstOnly(st, row, d, hapax) ==
    IF st.err \/ get_morphemes_raises(row.segm)
    THEN [st EXCEPT !.err = TRUE]
    ELSE LET morphemes == SubSeq(get_morphemes(row.segm), 1, 1)
             todo == SelectSeq(morphemes, LAMBDA x : x \notin st.counted)
         IN  MorphemeLoop(todo, 1, st, d, hapax)

\* one turn of the loop over the rows, lines 106-125
ComputeRowStep(st, row, d, hapax) ==
    IF st.err \/ get_morphemes_raises(row.segm)
    THEN [st EXCEPT !.err = TRUE]
    ELSE LET morphemes == get_morphemes(row.segm)
             todo == SelectSeq(morphemes, LAMBDA x : x \notin st.counted)
         IN  MorphemeLoop(todo, 1, st, d, hapax)

RECURSIVE RowLoop(_, _, _, _)
RowLoop(st, k, d, hapax) ==
    IF k > Len(d) THEN st
    ELSE RowLoop(ComputeRowStep(st, d[k], d, hapax), k + 1, d, hapax)

compute_morphological_variables(d, hapax) ==
    RowLoop([mv |-> <<>>, counted |-> {}, aggregated |-> <<>>, err |-> FALSE],
            1, d, hapax)

(***************************************************************************)
(* apply_morpho_vars_to_lex_db.                                            *)
(***************************************************************************)
\* the commented-out line 73: the frequency of the row itself
WordFreqOwnRow(row, morphemes, mv) == row.hal

\* line 75: the frequency of the word, read in the family of its first morpheme
WordFreq(row, morphemes, mv) == mv[morphemes[1]].family[row.segm]

\* KeyError at line 75 or in the loop of lines 76-85
LookupFails(row, morphemes, mv) ==
    \/ /\ morphemes # <<>>
       /\ \/ morphemes[1] \notin DOMAIN mv
          \/ row.segm \notin DOMAIN mv[morphemes[1]].family
    \/ \E k \in 1..Len(morphemes) : morphemes[k] \notin DOMAIN mv

\* lines 77-85
MVars(freq, v) ==
    [ffr         |-> get_family_frequency_rank(freq, v.family),
     pfmf        |-> get_percentage_family_more_frequent(freq, v.family),
     family_size |-> v.family_size,
     hal_freq    |-> v.hal_freq,
     hal_p       |-> v.hal_p,
     hal_pstar   |-> v.hal_pstar,
     length      |-> v.length]

\* one turn of the loop over the rows, lines 60-87; a failed lookup raises
\* KeyError out of the function, which returns nothing
ApplyRowStep(st, row, mv) ==
    IF st.err THEN st
    ELSE IF row.segm = NULL THEN st
    ELSE LET prs == get_PRS_signature(row.segm)
             morphemes == get_morphemes(row.segm)
         IN  IF LookupFails(row, morphemes, mv) THEN [st EXCEPT !.err = TRUE]
             ELSE LET freq == WordFreq(row, morphemes, mv)
                      temp == [id          |-> row.id,
                               n_morphemes |-> Len(morphemes),
                               prs         |-> prs,
                               segm        |-> row.segm,
                               m_vars      |-> [k \in 1..Len(morphemes) |->
                                                MVars(freq, mv[morphemes[k]])]]
                      old == IF prs \in DOMAIN st.res THEN st.res[prs] ELSE <<>>
                  IN  [res |-> (prs :> Append(old, temp)) @@ st.res,
                       err |-> FALSE]

(***************************************************************************)
(* The run of build_morpholex_db.py, lines 329-343.                        *)
(***************************************************************************)
SegmPool == { <<"(", "a", ")">>,
              <<"(", "a", ")", ">", "b", ">">>,
              <<"<", "b", "<", "(", "a", ")">> }

\* the columns Freq_HAL and SUBTLWF as the file holds them; the sub-title
\* frequency is read only when the HAL frequency is above its threshold
FreqPool == { << <<"0">>, <<"0", ".", "0", "0">> >>,
              << <<"1">>, <<"0", ".", "0", "5">> >>,
              << <<"2">>, NULL >>,
              << <<"2">>, <<"0", ".", "0", "5">> >> }

\* the files of at most MaxRows data rows drawn from pool, line 330
Files(pool) ==
    UNION { { [k \in 1..n |-> [id |-> k, segm |-> f[k][1],
                               hal |-> f[k][2][1], sbtl |-> f[k][2][2]]] :
              f \in [1..n -> pool] } : n \in 0..MaxRows }

\* the files in which every word has a segmentation
Corpora == Files(SegmPool \X FreqPool)

EngineInit ==
    /\ db \in Corpora
    /\ hapax_set = <<>>
    /\ morpho_vars = <<>>
    /\ counted = {}
    /\ aggregated = <<>>
    /\ res = <<>>
    /\ i = 1
    /\ pc = "preprocess"

EngineIdle ==
    /\ db = <<>>
    /\ hapax_set = <<>>
    /\ morpho_vars = <<>>
    /\ counted = {}
    /\ aggregated = <<>>
    /\ res = <<>>
    /\ i = 1
    /\ pc = "idle"

ExtractIdle ==
    /\ x_segm = <<>>
    /\ x_spans = <<>>
    /\ x_morphemes = <<>>
    /\ x_prs = <<>>
    /\ x_pc = {"idle"}

AnnotIdle ==
    /\ roots = {}
    /\ raw = <<>>
    /\ new_segm = <<>>
    /\ stage = "idle"
    /\ run = 0

\* line 333
Preprocess ==
    /\ pc = "preprocess"
    /\ IF preprocess_db_raises(db)
       THEN db' = db /\ pc' = "error"
       ELSE db' = preprocess_db(db) /\ pc' = "hapax"
    /\ UNCHANGED <<hapax_set, morpho_vars, counted, aggregated, res, i>>

\* line 335
GetHapaxSet ==
    /\ pc = "hapax"
    /\ hapax_set' = get_hapax_set(db)
    /\ pc' = IF Len(db) = 0 THEN "apply" ELSE "compute"
    /\ UNCHANGED <<db, morpho_vars, counted, aggregated, res, i>>

\* line 337, one row at a time
ComputeRow ==
    /\ pc = "compute"
    /\ i <= Len(db)
    /\ LET st == ComputeRowStep([mv |-> morpho_vars, counted |-> counted,
                                 aggregated |-> aggregated, err |-> FALSE],
                                db[i], db, hapax_set)
       IN  /\ morpho_vars' = st.mv
           /\ counted' = st.counted
           /\ aggregated' = st.aggregated
           /\ pc' = IF st.err THEN "error"
                    ELSE IF i = Len(db) THEN "apply" ELSE "compute"
           /\ i' = IF i = Len(db) THEN 1 ELSE i + 1
    /\ UNCHANGED <<db, hapax_set, res>>

\* line 343, one row at a time
ApplyRow ==
    /\ pc = "apply"
    /\ i <= Len(db)
    /\ LET st == ApplyRowStep([res |-> res, err |-> FALSE], db[i], morpho_vars)
       IN  /\ res' = st.res
           /\ pc' = IF st.err THEN "error"
                    ELSE IF i = Len(db) THEN "done" ELSE "apply"
    /\ i' = i + 1
    /\ UNCHANGED <<db, hapax_set, morpho_vars, counted, aggregated>>

\* the corpus is empty: nothing to apply
ApplyNothing ==
    /\ pc = "apply"
    /\ Len(db) = 0
    /\ pc' = "done"
    /\ UNCHANGED <<db, hapax_set, morpho_vars, counted, aggregated, res, i>>

Init == EngineInit /\ ExtractIdle /\ AnnotIdle

Next ==
    \/ Preprocess /\ UNCHANGED <<extract_vars, annot_vars>>
    \/ GetHapaxSet /\ UNCHANGED <<extract_vars, annot_vars>>
    \/ ComputeRow /\ UNCHANGED <<extract_vars, annot_vars>>
    \/ ApplyRow /\ UNCHANGED <<extract_vars, annot_vars>>
    \/ ApplyNothing /\ UNCHANGED <<extract_vars, annot_vars>>

Spec == Init /\ [][Next]_vars

(***************************************************************************)
(* The same run on a file with words that have no segmentation.            *)
(***************************************************************************)
\* the rows without a segmentation: no frequency at all, or some
NullRowPool == { <<NULL, <<NULL, NULL>> >>,
                 <<NULL, << <<"1">>, <<"0", ".", "0", "5">> >> >> }

NullSegmPool == { <<"(", "a", ")">>,
                  <<"(", "a", ")", ">", "b", ">">> }

NullCorpora == Files((NullSegmPool \X FreqPool) \cup NullRowPool)

NullInit ==
    /\ db \in NullCorpora
    /\ hapax_set = <<>>
    /\ morpho_vars = <<>>
    /\ counted = {}
    /\ aggregated = <<>>
    /\ res = <<>>
    /\ i = 1
    /\ pc = "preprocess"

InitNull == NullInit /\ ExtractIdle /\ AnnotIdle

SpecNull == InitNull /\ [][Next]_vars

(***************************************************************************)
(* The same run on a file with words in which a morpheme occurs twice      *)
(* ('(a)(a)', a reduplicated root; '(a)>b>>b>', a doubled suffix).         *)
(***************************************************************************)
RepeatSegmPool == { <<"(", "a", ")">>,
                    <<"(", "a", ")", "(", "a", ")">>,
                    <<"(", "a", ")", ">", "b", ">", ">", "b", ">">> }

RepeatCorpora == Files(RepeatSegmPool \X FreqPool)

RepeatInit ==
    /\ db \in RepeatCorpora
    /\ hapax_set = <<>>
    /\ morpho_vars = <<>>
    /\ counted = {}
    /\ aggregated = <<>>
    /\ res = <<>>
    /\ i = 1
    /\ pc = "preprocess"

InitRepeat == RepeatInit /\ ExtractIdle /\ AnnotIdle

SpecRepeat == InitRepeat /\ [][Next]_vars

(***************************************************************************)
(* apply_morpho_vars_to_lex_db with a table that was computed earlier      *)
(* (the morpho_vars.json of lines 338-341), when the file held only its    *)
(* first rows.                                                             *)
(***************************************************************************)
StaleInit ==
    /\ db \in {preprocess_db(d) : d \in Corpora}
    /\ \E n \in 0..Len(db) :
          LET earlier == SubSeq(db, 1, n)
              st == compute_morphological_variables(earlier,
                                                    get_hapax_set(earlier))
          IN  /\ hapax_set = get_hapax_set(earlier)
              /\ morpho_vars = st.mv
              /\ counted = st.counted
              /\ aggregated = st.aggregated
    /\ res = <<>>
    /\ i = 1
    /\ pc = "apply"

InitStale == StaleInit /\ ExtractIdle /\ AnnotIdle

NextStale ==
    \/ ApplyRow /\ UNCHANGED <<extract_vars, annot_vars>>
    \/ ApplyNothing /\ UNCHANGED <<extract_vars, annot_vars>>

SpecStale == InitStale /\ [][NextStale]_vars

(***************************************************************************)
(* The morpheme extractor on segmentations made of classified spans.       *)
(***************************************************************************)
SpanKinds == {"prefix", "root", "suffix"}
SpanTexts == { <<"a">>, <<"a", "b">> }

\* the notation of one span: <x<, (x), >x>
Notation(span) ==
    IF span.kind = "prefix" THEN <<"<">> \o span.text \o <<"<">>
    ELSE IF span.kind = "root" THEN <<"(">> \o span.text \o <<")">>
    ELSE <<">">> \o span.text \o <<">">>

RECURSIVE Concat(_)
Concat(ss) == IF ss = <<>> THEN <<>> ELSE Head(ss) \o Concat(Tail(ss))

SpanSeqs ==
    UNION { [1..n -> [kind : SpanKinds, text : SpanTexts]] : n \in 0..MaxSpans }

ExtractInit ==
    /\ x_spans \in SpanSeqs
    /\ x_segm = Concat([k \in 1..Len(x_spans) |-> Notation(x_spans[k])])
    /\ x_morphemes = <<>>
    /\ x_prs = <<>>
    /\ x_pc = {}

CallGetMorphemes ==
    /\ "get_morphemes" \notin x_pc
    /\ "idle" \notin x_pc
    /\ ~get_morphemes_raises(x_segm)
    /\ x_morphemes' = get_morphemes(x_segm)
    /\ x_pc' = x_pc \cup {"get_morphemes"}
    /\ UNCHANGED <<x_segm, x_spans, x_prs>>

CallGetPRS ==
    /\ "get_PRS_signature" \notin x_pc
    /\ "idle" \notin x_pc
    /\ x_prs' = get_PRS_signature(x_segm)
    /\ x_pc' = x_pc \cup {"get_PRS_signature"}
    /\ UNCHANGED <<x_segm, x_spans, x_morphemes>>

InitExtract == EngineIdle /\ ExtractInit /\ AnnotIdle

NextExtract ==
    \/ CallGetMorphemes /\ UNCHANGED <<engine_vars, annot_vars>>
    \/ CallGetPRS /\ UNCHANGED <<engine_vars, annot_vars>>

SpecExtract == InitExtract /\ [][NextExtract]_vars

(***************************************************************************)
(* The extractor on corrupt segmentations: one delimiter of a segmentation *)
(* made of spans is missing.                                               *)
(***************************************************************************)
\* s without its p-th character
DropAt(s, p) == SubSeq(s, 1, p - 1) \o SubSeq(s, p + 1, Len(s))

\* the segmentations obtained from s by losing one '<', '>', '(' or ')'
Corrupted(s) ==
    {DropAt(s, p) : p \in {k \in 1..Len(s) : s[k] \in Openers \cup Closers}}

CorruptInit ==
    /\ x_spans \in SpanSeqs
    /\ x_segm \in Corrupted(Concat([k \in 1..Len(x_spans) |->
                                        Notation(x_spans[k])]))
    /\ x_morphemes = <<>>
    /\ x_prs = <<>>
    /\ x_pc = {}

InitCorrupt == EngineIdle /\ CorruptInit /\ AnnotIdle

SpecCorrupt == InitCorrupt /\ [][NextExtract]_vars

(***************************************************************************)
(* utilities/fix_segmentation.py: strings and regular expressions.         *)
(***************************************************************************)
\* the characters of the notation; every other character is a \w character
NonWordChars == {"<", ">", "{", "}", "(", ")", "-", "'"}
IsWordChar(c) == c \notin NonWordChars

\* the index after the run of \w characters that starts at p (p itself when
\* there is none)
WordRunStop(s, p) ==
    LET c == {k \in p..Len(s) : ~IsWordChar(s[k])}
    IN  IF c = {} THEN Len(s) + 1 ELSE Min(c)

\* Python's s.replace(old, new, count) from position p on: the occurrences
\* of old from left to right, not overlapping, count of them at most (all
\* of them when count is negative); old is not empty
RECURSIVE ReplaceFrom(_, _, _, _, _)
ReplaceFrom(s, p, old, new, count) ==
    IF p > Len(s) THEN <<>>
    ELSE IF count # 0 /\ OccursAt(old, s, p)
         THEN new \o ReplaceFrom(s, p + Len(old), old, new, count - 1)
         ELSE <<s[p]>> \o ReplaceFrom(s, p + 1, old, new, count)

Replace(s, old, new, count) == ReplaceFrom(s, 1, old, new, count)

\* s[::-1]
Reverse(s) == [k \in 1..Len(s) |-> s[Len(s) + 1 - k]]

rreplace(s, old, new, count) ==
    Reverse(Replace(Reverse(s), Reverse(old), Reverse(new), count))

\* line 86: re.sub(r"(^.+){ally}$", r'\1>ally>', segm)
ALLY == <<"{", "a", "l", "l", "y", "}">>
FixAlly(segm) ==
    IF Len(segm) > Len(ALLY) /\ OccursAt(ALLY, segm, Len(segm) - Len(ALLY) + 1)
    THEN SubSeq(segm, 1, Len(segm) - Len(ALLY)) \o <<">", "a", "l", "l", "y", ">">>
    ELSE segm

\* line 89: re.sub(r"\{up\}(.+)", r'<up<\1', segm); (.+) takes the rest of
\* the string, so only the leftmost {up} is rewritten
UP == <<"{", "u", "p", "}">>
FixUp(segm) ==
    LET p == Find(UP, segm)
    IN  IF p # 0 /\ p + Len(UP) <= Len(segm)
        THEN SubSeq(segm, 1, p - 1) \o <<"<", "u", "p", "<">>
             \o SubSeq(segm, p + Len(UP), Len(segm))
        ELSE segm

\* (ed|d|ing|s|\w*'\w*)
NonDerivational(x) ==
    \/ x \in { <<"e", "d">>, <<"d">>, <<"i", "n", "g">>, <<"s">> }
    \/ /\ Count(x, "'") = 1
       /\ \A k \in 1..Len(x) : x[k] = "'" \/ IsWordChar(x[k])

\* line 92: re.sub(r">(ed|d|ing|s|\w*'\w*)>$", '', segm): the suffix span
\* that ends the string
StripSuffix(segm) ==
    LET n == Len(segm)
        c == {p \in 1..(n - 1) : segm[p] = ">"}
        p == IF c = {} THEN 0 ELSE CHOOSE x \in c : \A y \in c : y <= x
    IN  IF n >= 1 /\ segm[n] = ">" /\ p # 0
           /\ NonDerivational(SubSeq(segm, p + 1, n - 1))
        THEN SubSeq(segm, 1, p - 1)
        ELSE segm

\* line 145: re.findall(r'[<>{}-](.+?)[<>{}-]', segm) from position p on
Delimiters == {"<", ">", "{", "}", "-"}
RECURSIVE FindDelimited(_, _)
FindDelimited(segm, p) ==
    IF p > Len(segm) THEN <<>>
    ELSE LET q == FirstIn(segm, p + 2, Delimiters)
         IN  IF segm[p] \in Delimiters /\ q # 0
             THEN <<SubSeq(segm, p + 1, q - 1)>> \o FindDelimited(segm, q + 1)
             ELSE FindDelimited(segm, p + 1)

\* lines 146-147: every occurrence of r becomes (r), one root after another
RECURSIVE MarkRoots(_, _, _)
MarkRoots(segm, rts, k) ==
    IF k > Len(rts) THEN segm
    ELSE MarkRoots(Replace(segm, rts[k], <<"(">> \o rts[k] \o <<")">>, -1),
                   rts, k + 1)

\* lines 144-147
AnnotateRoots(segm, rootset) ==
    LET rts == SelectSeq(FindDelimited(segm, 1), LAMBDA x : x \in rootset)
    IN  MarkRoots(segm, rts, 1)

\* line 150: re.sub(r'[><](\(\w+?\))[><]', r'\1', x) from position p on
RECURSIVE RemoveAffixNotationFrom(_, _)
RemoveAffixNotationFrom(x, p) ==
    IF p > Len(x) THEN <<>>
    ELSE LET q == WordRunStop(x, p + 2)
         IN  IF /\ x[p] \in {">", "<"}
                /\ p + 1 <= Len(x) /\ x[p + 1] = "("
                /\ q >= p + 3
                /\ q + 1 <= Len(x) /\ x[q] = ")" /\ x[q + 1] \in {">", "<"}
             THEN SubSeq(x, p + 1, q) \o RemoveAffixNotationFrom(x, q + 2)
             ELSE <<x[p]>> \o RemoveAffixNotationFrom(x, p + 1)

RemoveAffixNotation(x) == RemoveAffixNotationFrom(x, 1)

\* --\w+ matches at p
DashWordAt(s, p) ==
    /\ p + 2 <= Len(s)
    /\ s[p] = "-" /\ s[p + 1] = "-"
    /\ IsWordChar(s[p + 2])

\* the index after the longest chain (--\w+)* that starts at p
RECURSIVE ChainStop(_, _)
ChainStop(s, p) ==
    IF DashWordAt(s, p) THEN ChainStop(s, WordRunStop(s, p + 2)) ELSE p

\* line 154: the first groups of re.findall(r'\)((--\w+)*--\w+)', segm),
\* joined
RECURSIVE SuffixSequence(_, _)
SuffixSequence(segm, p) ==
    IF p > Len(segm) THEN <<>>
    ELSE LET e == ChainStop(segm, p + 1)
         IN  IF segm[p] = ")" /\ e > p + 1
             THEN SubSeq(segm, p + 1, e - 1) \o SuffixSequence(segm, e)
             ELSE SuffixSequence(segm, p + 1)

\* line 157: re.findall(r'--\w+', suffs_sequence)
RECURSIVE FindDashWords(_, _)
FindDashWords(s, p) ==
    IF p > Len(s) THEN <<>>
    ELSE IF DashWordAt(s, p)
         THEN <<SubSeq(s, p, WordRunStop(s, p + 2) - 1)>>
              \o FindDashWords(s, WordRunStop(s, p + 2))
         ELSE FindDashWords(s, p + 1)

\* lines 159-162: the last occurrence of each suff becomes >suff>
RECURSIVE MarkSuffixes(_, _, _)
MarkSuffixes(segm, suffs, k) ==
    IF k > Len(suffs) THEN segm
    ELSE MarkSuffixes(rreplace(segm, suffs[k],
                               <<">">> \o suffs[k] \o <<">">>, 1),
                      suffs, k + 1)

\* lines 153-162
AnnotateSuffixes(segm) ==
    MarkSuffixes(segm, FindDashWords(SuffixSequence(segm, 1), 1), 1)

\* line 166: re.findall(r'(\w+--)(?=[^\)\}]*\()', segm) from position p on:
\* a run of \w characters, two dashes, and then a '(' before any ')' or '}'
RECURSIVE FindPrefixes(_, _)
FindPrefixes(segm, p) ==
    IF p > Len(segm) THEN <<>>
    ELSE LET e == WordRunStop(segm, p)
             ahead == FirstIn(segm, e + 2, {")", "}", "("})
         IN  IF /\ e > p
                /\ e + 1 <= Len(segm) /\ segm[e] = "-" /\ segm[e + 1] = "-"
                /\ ahead # 0 /\ segm[ahead] = "("
             THEN <<SubSeq(segm, p, e + 1)>> \o FindPrefixes(segm, e + 2)
             ELSE FindPrefixes(segm, p + 1)

\* lines 169-172: the first occurrence of each pref becomes <pref<
RECURSIVE MarkPrefixes(_, _, _)
MarkPrefixes(segm, prefs, k) ==
    IF k > Len(prefs) THEN segm
    ELSE MarkPrefixes(Replace(segm, prefs[k],
                              <<"<">> \o prefs[k] \o <<"<">>, 1),
                      prefs, k + 1)

\* lines 165-172
AnnotatePrefixes(segm) == MarkPrefixes(segm, FindPrefixes(segm, 1), 1)

\* line 175: x.replace('-', '')
RemoveDashes(x) == SelectSeq(x, LAMBDA c : c # "-")

\* line 179: re.sub(r'\{(\w+)\}', r'{(\1)}', x) from position p on
RECURSIVE ResidualClosureFrom(_, _)
ResidualClosureFrom(x, p) ==
    IF p > Len(x) THEN <<>>
    ELSE LET e == WordRunStop(x, p + 1)
         IN  IF x[p] = "{" /\ e > p + 1 /\ e <= Len(x) /\ x[e] = "}"
             THEN <<"{", "(">> \o SubSeq(x, p + 1, e - 1) \o <<")", "}">>
                  \o ResidualClosureFrom(x, e + 1)
             ELSE <<x[p]>> \o ResidualClosureFrom(x, p + 1)

ResidualClosure(x) == ResidualClosureFrom(x, 1)

(***************************************************************************)
(* The run of fix_segmentation.py on one segmentation, lines 86-179, and   *)
(* a second run of the same stages on the output of the first.             *)
(***************************************************************************)
MaxChain == 2      \* sub-segments joined by -- inside one {...} span
MaxCurly == 2      \* {...} spans of a raw segmentation
MaxSuffixes == 2   \* >x> spans that end a raw segmentation

RawWords == { <<"a">>, <<"b">>, <<"a", "b">> }

\* the chains of n words joined by --
RECURSIVE Chains(_)
Chains(n) ==
    IF n = 1 THEN RawWords
    ELSE {c \o <<"-", "-">> \o w : c \in Chains(n - 1), w \in RawWords}

CurlySpans ==
    {<<"{">> \o c \o <<"}">> : c \in UNION {Chains(n) : n \in 1..MaxChain}}
    \cup {UP, ALLY}

PrefixSpans == { <<"<", "a", "<">> }
SuffixSpans == { <<">", "a", ">">>, <<">", "s", ">">> }

\* the concatenations of at least lo and at most hi members of pool
SpanRuns(pool, lo, hi) ==
    {Concat(f) : f \in UNION {[1..n -> pool] : n \in lo..hi}}

\* a raw segmentation of the lexicon: prefixes, {...} spans, suffixes
RawSegms ==
    {p \o c \o x : p \in SpanRuns(PrefixSpans, 0, 1),
                   c \in SpanRuns(CurlySpans, 1, MaxCurly),
                   x \in SpanRuns(SuffixSpans, 0, MaxSuffixes)}

\* the segmentation of 'revisit' in three {...} spans, with 'vis' a resolved
\* root and 're' and 'it' not
RE == <<"r", "e">>
VIS == <<"v", "i", "s">>
IT == <<"i", "t">>
REVISIT == <<"{">> \o RE \o <<"}", "{">> \o VIS \o <<"}", "{">> \o IT \o <<"}">>
RevisitRoots == {r \cup {VIS} : r \in SUBSET RawWords}

\* one {...} span with a chain one sub-segment longer
LongChainSegms == {<<"{">> \o c \o <<"}">> : c \in Chains(MaxChain + 1)}

AnnotInit ==
    /\ \/ roots \in SUBSET RawWords /\ raw \in RawSegms \cup LongChainSegms
       \/ roots \in RevisitRoots /\ raw = REVISIT
    /\ new_segm = raw
    /\ stage = "ally"
    /\ run = 1

\* one stage: new_segm becomes out and the run moves on to the stage next
Stage(this, out, next) ==
    /\ stage = this
    /\ new_segm' = out
    /\ stage' = next
    /\ UNCHANGED <<roots, raw, run>>

\* line 86
StageFixAlly == Stage("ally", FixAlly(new_segm), "up")
\* line 89
StageFixUp == Stage("up", FixUp(new_segm), "strip")
\* line 92
StageStripSuffix == Stage("strip", StripSuffix(new_segm), "roots")
\* lines 144-147
StageAnnotateRoots == Stage("roots", AnnotateRoots(new_segm, roots), "affix")
\* line 150
StageRemoveAffixNotation ==
    Stage("affix", RemoveAffixNotation(new_segm), "suffixes")
\* lines 153-162
StageAnnotateSuffixes == Stage("suffixes", AnnotateSuffixes(new_segm), "prefixes")
\* lines 165-172
StageAnnotatePrefixes == Stage("prefixes", AnnotatePrefixes(new_segm), "dashes")
\* line 175
StageRemoveDashes == Stage("dashes", RemoveDashes(new_segm), "closure")
\* line 179
StageResidualClosure == Stage("closure", ResidualClosure(new_segm), "end")

\* the script is run again on the segmentation it wrote
Rerun ==
    /\ stage = "end"
    /\ run = 1
    /\ raw' = new_segm
    /\ stage' = "ally"
    /\ run' = 2
    /\ UNCHANGED <<roots, new_segm>>

InitAnnot == EngineIdle /\ ExtractIdle /\ AnnotInit

NextAnnot ==
    \/ StageFixAlly /\ UNCHANGED <<engine_vars, extract_vars>>
    \/ StageFixUp /\ UNCHANGED <<engine_vars, extract_vars>>
    \/ StageStripSuffix /\ UNCHANGED <<engine_vars, extract_vars>>
    \/ StageAnnotateRoots /\ UNCHANGED <<engine_vars, extract_vars>>
    \/ StageRemoveAffixNotation /\ UNCHANGED <<engine_vars, extract_vars>>
    \/ StageAnnotateSuffixes /\ UNCHANGED <<engine_vars, extract_vars>>
    \/ StageAnnotatePrefixes /\ UNCHANGED <<engine_vars, extract_vars>>
    \/ StageRemoveDashes /\ UNCHANGED <<engine_vars, extract_vars>>
    \/ StageResidualClosure /\ UNCHANGED <<engine_vars, extract_vars>>
    \/ Rerun /\ UNCHANGED <<engine_vars, extract_vars>>

SpecAnnot == InitAnnot /\ [][NextAnnot]_vars

(***************************************************************************)
(* Properties of the variable engine (specification Spec).                 *)
(***************************************************************************)
Morphemes == DOMAIN morpho_vars

\* the rows whose segmentation is s
RowsWith(s) == {k \in 1..Len(db) : db[k].segm = s}

RECURSIVE SumHal(_)
SumHal(K) ==
    IF K = {} THEN 0
    ELSE LET k == CHOOSE x \in K : TRUE IN db[k].hal + SumHal(K \ {k})

\* the distinct segmentations of the corpus that contain m
SegmentationsWith(m) ==
    {db[k].segm : k \in {x \in 1..Len(db) : Contains(m, db[x].segm)}}

\* the records written so far
Records == UNION { {res[p][k] : k \in 1..Len(res[p])} : p \in DOMAIN res }

\* C1: the family of a morpheme has exactly one key per distinct
\* segmentation containing the morpheme, the value of a key is the summed
\* HAL frequency of all the rows with that segmentation, and the family size
\* is the number of distinct segmentations, not of rows.
C1_FamilyMergesEqualSegmentations ==
    \A m \in Morphemes :
        LET v == morpho_vars[m]
        IN  /\ DOMAIN v.family = SegmentationsWith(m)
            /\ \A s \in DOMAIN v.family : v.family[s] = SumHal(RowsWith(s))
            /\ v.family_size = Cardinality(SegmentationsWith(m))

\* two rows share a segmentation, a third has another one, all contain m
C1_Witness ==
    /\ pc = "done"
    /\ \E m \in Morphemes : \E s \in DOMAIN morpho_vars[m].family :
          /\ Cardinality(RowsWith(s)) = 2
          /\ \A k \in RowsWith(s) : db[k].hal > 0
          /\ morpho_vars[m].family_size = 2
          /\ morpho_vars[m].family[s] = 3

\* 0 <= x <= 1
InUnitInterval(x) == x.den > 0 /\ 0 <= x.num /\ x.num <= x.den

\* C2: for every recorded morpheme the family size is at least 1 and P and
\* P* lie in [0, 1].
C2_MeasuresInUnitInterval ==
    \A m \in Morphemes :
        /\ morpho_vars[m].family_size >= 1
        /\ InUnitInterval(morpho_vars[m].hal_p)
        /\ InUnitInterval(morpho_vars[m].hal_pstar)

\* C3: the run never divides by zero: a morpheme of total frequency 0 gets
\* P = 0 and P* = 0, and where a quotient was taken the total frequency and
\* the size of the hapax set, its denominators, are greater than 0.
C3_NoDivisionByZero ==
    /\ pc # "error"
    /\ \A m \in Morphemes :
        LET v == morpho_vars[m]
        IN  /\ v.hal_freq = 0 => v.hal_p = Zero /\ v.hal_pstar = Zero
            /\ v.hal_p # Zero \/ v.hal_pstar # Zero =>
                  /\ v.hal_freq > 0
                  /\ Len(hapax_set) > 0
                  /\ v.hal_p.den = v.hal_freq
                  /\ v.hal_pstar.den = Len(hapax_set)

\* a morpheme of total frequency 0 whose rows are in the hapax set, and a
\* morpheme for which the quotients were taken
C3_Witness ==
    /\ pc = "done"
    /\ \E m \in Morphemes :
          /\ morpho_vars[m].hal_freq = 0
          /\ \E k \in 1..Len(hapax_set) : Contains(m, hapax_set[k].segm)
    /\ \E m \in Morphemes : morpho_vars[m].hal_p.num > 0

\* the family of the k-th morpheme of the word of record r, and the
\* frequency of the word in it
FamilyOf(r, k) == morpho_vars[get_morphemes(r.segm)[k]].family
OwnFreq(r, k) == FamilyOf(r, k)[r.segm]

\* C4: the rank is 1 + the number of family members strictly more frequent
\* than the word; a member tied with the word does not raise it, so the most
\* frequent member and its ties have rank 1, and the rank lies between 1 and
\* the family size.
C4_FamilyFrequencyRank ==
    \A r \in Records : \A k \in 1..r.n_morphemes :
        LET fam == FamilyOf(r, k)
            ffr == r.m_vars[k].ffr
        IN  /\ ffr = 1 + Cardinality({s \in DOMAIN fam \ {r.segm} :
                                        fam[s] > OwnFreq(r, k)})
            /\ 1 <= ffr
            /\ ffr <= Cardinality(DOMAIN fam)
            /\ (\A s \in DOMAIN fam : fam[s] <= OwnFreq(r, k)) => ffr = 1

\* a word of rank 1 tied with another member, and a word of rank 3
C4_Witness ==
    /\ \E r \in Records : \E k \in 1..r.n_morphemes :
          /\ r.m_vars[k].ffr = 1
          /\ \E s \in DOMAIN FamilyOf(r, k) \ {r.segm} :
                FamilyOf(r, k)[s] = OwnFreq(r, k)
    /\ \E r \in Records : \E k \in 1..r.n_morphemes : r.m_vars[k].ffr = 3

\* the members of the family other than the word's own entry that are
\* strictly more frequent than the word
OthersMoreFrequent(r, k) ==
    {s \in DOMAIN FamilyOf(r, k) \ {r.segm} :
        FamilyOf(r, k)[s] > OwnFreq(r, k)}

\* x = n (a whole number)
IsWhole(x, n) == x.den > 0 /\ x.num = n * x.den

\* C5: the PFMF is 0 in a family of one member and otherwise (members other
\* than the word's own entry that are strictly more frequent) / (family
\* size - 1) * 100; it lies in [0, 100]; in a family of 3 with distinct
\* frequencies it is 0, 50 and 100 for the most, second and least frequent.
C5_PercentageFamilyMoreFrequent ==
    \A r \in Records : \A k \in 1..r.n_morphemes :
        LET fam == FamilyOf(r, k)
            n == Cardinality(DOMAIN fam)
            more == Cardinality(OthersMoreFrequent(r, k))
            pfmf == r.m_vars[k].pfmf
        IN  /\ n = 1 => pfmf = Zero
            /\ n > 1 => /\ pfmf.den > 0
                        /\ pfmf.num * (n - 1) = 100 * more * pfmf.den
            /\ pfmf.den > 0 /\ 0 <= pfmf.num /\ pfmf.num <= 100 * pfmf.den
            /\ (n = 3 /\ \A s, t \in DOMAIN fam : s # t => fam[s] # fam[t]) =>
                  /\ more = 0 => IsWhole(pfmf, 0)
                  /\ more = 1 => IsWhole(pfmf, 50)
                  /\ more = 2 => IsWhole(pfmf, 100)

\* a family of 3 with distinct frequencies whose words got 0, 50 and 100
C5_Witness ==
    \E m \in Morphemes :
        LET fam == morpho_vars[m].family
        IN  /\ Cardinality(DOMAIN fam) = 3
            /\ \A s, t \in DOMAIN fam : s # t => fam[s] # fam[t]
            /\ \A n \in {0, 50, 100} :
                  \E r \in Records : \E k \in 1..r.n_morphemes :
                      /\ get_morphemes(r.segm)[k] = m
                      /\ IsWhole(r.m_vars[k].pfmf, n)

\* C6: for every morpheme of a word whose family has size 1 the record has
\* PFMF = 0 and FFR = 1, also when the word has several morphemes and the
\* frequency compared is read from the family of its first morpheme.
C6_FamilyOfOne ==
    \A r \in Records : \A k \in 1..r.n_morphemes :
        r.m_vars[k].family_size = 1 =>
            r.m_vars[k].pfmf = Zero /\ r.m_vars[k].ffr = 1

\* a word of two morphemes, sharing its segmentation with another row, whose
\* first morpheme has a larger family and whose second has a family of one
C6_Witness ==
    \E r \in Records :
        /\ r.n_morphemes = 2
        /\ r.m_vars[1].family_size > 1
        /\ r.m_vars[2].family_size = 1
        /\ Cardinality(RowsWith(r.segm)) = 2
        /\ \A j \in RowsWith(r.segm) : db[j].hal > 0

\* the corpus with its rows in the order p
Permuted(p) == [k \in 1..Len(db) |-> db[p[k]]]

\* C8: for every permutation of the rows of the corpus the run over the
\* permuted corpus and its hapax set gives every morpheme the same total
\* frequency, family, family size, P and P*.
C8_OrderIndependent ==
    pc = "done" =>
        \A p \in Permutations(1..Len(db)) :
            LET st == compute_morphological_variables(
                          Permuted(p), get_hapax_set(Permuted(p)))
            IN  ~st.err /\ st.mv = morpho_vars

\* a finished run over three rows with three frequencies and two
\* segmentations that share a morpheme
C8_Witness ==
    /\ pc = "done"
    /\ Len(db) = 3
    /\ db[1].segm # db[2].segm
    /\ db[1].segm = db[3].segm
    /\ db[1].hal # db[2].hal /\ db[2].hal # db[3].hal /\ db[1].hal # db[3].hal

\* C17: with the table computed from the same corpus no lookup of
\* apply_morpho_vars_to_lex_db fails: every morpheme of every row is a key
\* of morpho_vars, the segmentation of the row is a key of the family of
\* each of its morphemes, and its value there is the same number in all of
\* them, the summed frequency of the rows with that segmentation.
C17_LookupsNeverFail ==
    /\ pc # "error"
    /\ pc \in {"apply", "done"} =>
          \A k \in 1..Len(db) :
              LET segm == db[k].segm
                  morphemes == get_morphemes(segm)
              IN  /\ ~LookupFails(db[k], morphemes, morpho_vars)
                  /\ \A j \in 1..Len(morphemes) :
                        /\ morphemes[j] \in DOMAIN morpho_vars
                        /\ segm \in DOMAIN morpho_vars[morphemes[j]].family
                        /\ morpho_vars[morphemes[j]].family[segm]
                              = morpho_vars[morphemes[1]].family[segm]
                        /\ morpho_vars[morphemes[j]].family[segm]
                              = SumHal(RowsWith(segm))

\* a finished run with a word of two morphemes whose families differ and
\* whose frequency, read in either family, sums two rows
C17_Witness ==
    /\ pc = "done"
    /\ \E r \in Records :
          /\ r.n_morphemes = 2
          /\ DOMAIN FamilyOf(r, 1) # DOMAIN FamilyOf(r, 2)
          /\ OwnFreq(r, 1) = OwnFreq(r, 2)
          /\ \E k \in RowsWith(r.segm) :
                db[k].hal > 0 /\ OwnFreq(r, 2) > db[k].hal

(***************************************************************************)
(* Properties of the run on words without segmentation (specification      *)
(* SpecNull).                                                              *)
(***************************************************************************)
\* the ItemIDs of the rows of d, in order
Ids(d) == [k \in 1..Len(d) |-> d[k].id]

\* C12: a row whose segmentation is 'NULL' is dropped by preprocess_db
\* without failing the run, whatever its frequency columns hold, and only
\* such rows are dropped; from then on no row of the corpus or of the hapax
\* set, no family key and no record comes from a 'NULL' segmentation, every
\* total frequency is summed over kept rows only, and get_morphemes is
\* never reached with 'NULL', so the run never fails.
C12_NullRowsExcluded ==
    /\ [][pc = "preprocess" =>
            /\ pc' = "hapax"
            /\ Ids(db') = Ids(SelectSeq(db, LAMBDA x : x.segm # NULL))
            /\ \A k \in 1..Len(db') : db'[k].segm # NULL]_vars
    /\ [](pc # "preprocess" =>
            /\ pc # "error"
            /\ \A k \in 1..Len(db) : ~get_morphemes_raises(db[k].segm)
            /\ \A k \in 1..Len(hapax_set) :
                  /\ hapax_set[k].segm # NULL
                  /\ \E j \in 1..Len(db) : db[j] = hapax_set[k]
            /\ \A m \in Morphemes :
                  /\ NULL \notin DOMAIN morpho_vars[m].family
                  /\ morpho_vars[m].hal_freq =
                        SumHal({k \in 1..Len(db) : Contains(m, db[k].segm)})
            /\ \A r \in Records :
                  /\ r.segm # NULL
                  /\ \E k \in 1..Len(db) : db[k].id = r.id)

\* a finished run whose file had a row without segmentation between two
\* rows with one, each of which got its record
C12_Witness ==
    /\ pc = "done"
    /\ Len(db) = 2
    /\ db[1].id + 1 < db[2].id
    /\ \A k \in 1..Len(db) : \E r \in Records : r.id = db[k].id

(***************************************************************************)
(* Properties of the run on words with a repeated morpheme (specification  *)
(* SpecRepeat).                                                            *)
(***************************************************************************)
\* the number of executions of the aggregation of m
Executions(m) == Cardinality({k \in 1..Len(aggregated) : aggregated[k] = m})

\* C15: the aggregation of a morpheme is executed exactly once for every
\* morpheme in the counted set, and never for another one.
C15_AggregatedOnce ==
    /\ \A m \in counted : Executions(m) = 1
    /\ \A k \in 1..Len(aggregated) : aggregated[k] \in counted

(***************************************************************************)
(* Properties of apply_morpho_vars_to_lex_db on an earlier table           *)
(* (specification SpecStale).                                              *)
(***************************************************************************)
\* C14: when the loop over the rows has stopped it has not been aborted,
\* and every word whose lookups all succeed has its record, whatever
\* lookups failed for other words.
C14_FailedLookupSkipped ==
    pc \in {"done", "error"} =>
        /\ pc = "done"
        /\ \A k \in 1..Len(db) :
              ~LookupFails(db[k], get_morphemes(db[k].segm), morpho_vars) =>
                  \E r \in Records : r.id = db[k].id

(***************************************************************************)
(* Properties of the extractor (specification SpecExtract).                *)
(***************************************************************************)
\* C7: for a segmentation made of prefix, root and suffix spans the number
\* of tokens of get_morphemes is the sum of the three components of
\* get_PRS_signature, and the i-th token is the i-th span.
C7_TokensMatchSignature ==
    x_pc = {"get_morphemes", "get_PRS_signature"} =>
        /\ Len(x_morphemes) = x_prs[1] + x_prs[2] + x_prs[3]
        /\ Len(x_morphemes) = Len(x_spans)
        /\ \A k \in 1..Len(x_spans) : x_morphemes[k] = Notation(x_spans[k])

\* a prefix, a root and a suffix, each tokenised
C7_Witness ==
    /\ x_pc = {"get_morphemes", "get_PRS_signature"}
    /\ x_prs = <<1, 1, 1>>
    /\ Len(x_morphemes) = 3
    /\ x_spans[1].kind = "prefix" /\ x_spans[3].kind = "suffix"

(***************************************************************************)
(* Properties of the extractor on corrupt segmentations (specification     *)
(* SpecCorrupt).                                                           *)
(***************************************************************************)
IsOdd(n) == n % 2 = 1

\* C13: for a segmentation with an odd number of '<' or an odd number of
\* '>' get_PRS_signature returns no signature.
C13_UnbalancedSurfaced ==
    (/\ "get_PRS_signature" \in x_pc
     /\ IsOdd(Count(x_segm, "<")) \/ IsOdd(Count(x_segm, ">"))) =>
        x_prs = <<>>

(***************************************************************************)
(* Properties of the annotator (specification SpecAnnot).                  *)
(***************************************************************************)
\* s from position p on is a sequence of spans <x<, (x), >x> with x a
\* non-empty run of \w characters
RECURSIVE ClassifiedFrom(_, _)
ClassifiedFrom(s, p) ==
    IF p > Len(s) THEN TRUE
    ELSE LET e == WordRunStop(s, p + 1)
         IN  /\ s[p] \in {"<", "(", ">"}
             /\ e > p + 1
             /\ e <= Len(s)
             /\ s[e] = (IF s[p] = "(" THEN ")" ELSE s[p])
             /\ ClassifiedFrom(s, e + 1)

\* C9: when the stages have run on a raw segmentation the output contains
\* no '{' or '}' and every span of it is a prefix <x<, a root (x) or a
\* suffix >x>.
C9_EverySpanClassified ==
    (stage = "end" /\ run = 1) =>
        /\ Count(new_segm, "{") = 0
        /\ Count(new_segm, "}") = 0
        /\ ClassifiedFrom(new_segm, 1)

\* C10: the stages run a second time, on their own output and with the same
\* root set, return that output unchanged.
C10_Idempotent ==
    (stage = "end" /\ run = 2) => new_segm = raw

\* C11: with 'vis' in the root set and 're' and 'it' not in it, the stages
\* turn '{re}{vis}{it}' into '<re<(vis)>it>', whose PRS signature is
\* (1, 1, 1).
C11_RevisitScenario ==
    (/\ stage = "end" /\ run = 1 /\ raw = REVISIT
     /\ VIS \in roots /\ RE \notin roots /\ IT \notin roots) =>
        /\ new_segm = <<"<">> \o RE \o <<"<", "(">> \o VIS \o <<")", ">">>
                      \o IT \o <<">">>
        /\ get_PRS_signature(new_segm) = <<1, 1, 1>>

\* the sub-segments --x from position p up to e, each wrapped as >--x>
RECURSIVE WrapChain(_, _, _)
WrapChain(s, p, e) ==
    IF p >= e THEN <<>>
    ELSE LET q == WordRunStop(s, p + 2)
         IN  <<">">> \o SubSeq(s, p, q - 1) \o <<">">> \o WrapChain(s, q, e)

\* s from position p on, with every chain of dash-joined sub-segments that
\* follows a root marker wrapped where it stands
RECURSIVE WrapInPlace(_, _)
WrapInPlace(s, p) ==
    IF p > Len(s) THEN <<>>
    ELSE LET e == ChainStop(s, p + 1)
         IN  IF s[p] = ")" /\ e > p + 1
             THEN <<")">> \o WrapChain(s, p + 1, e) \o WrapInPlace(s, e)
             ELSE <<s[p]>> \o WrapInPlace(s, p + 1)

\* C16: the suffix stage wraps each sub-segment that follows a root marker
\* exactly once, where it stands, and changes nothing else, also when the
\* spelling of a sub-segment occurs elsewhere in the string.
C16_SuffixesWrappedOnce ==
    [][(stage = "suffixes" /\ run = 1) =>
            new_segm' = WrapInPlace(new_segm, 1)]_vars

====
